---------------------------- MODULE Spec2Model ----------------------------
(***************************************************************************)
(* Model of the file-backed object cache of kentik_image_cache             *)
(* (src/object_cache/local_file_cache.py, src/object_cache/cache_entry.py).*)
(*                                                                         *)
(* The file system is modelled at the level of system calls: a directory   *)
(* maps a name to an inode, an inode has a content, open("rb") binds a     *)
(* handle to an inode, open("wb") creates the name or truncates the inode  *)
(* it names, rename moves a name between directories (replacing the        *)
(* target), unlink removes a name.  Every method of ObjectCache is a       *)
(* sequence of such steps, and the steps of concurrent callers (tasks,     *)
(* threads or worker processes sharing the cache directory) interleave.    *)
(***************************************************************************)
EXTENDS Naturals, Sequences, FiniteSets

\* ------------------------------------------------------------------ bounds
\* Total number of ObjectCache method calls made in one behaviour.
MaxCalls == 3

\* Concurrent callers, entry identifiers.
Procs == {"p1", "p2"}
IdList == <<"a", "b">>
Ids == {IdList[k] : k \in DOMAIN IdList}

\* ----------------------------------------------------------- program values
\* CacheEntryType: the member names and their values (the tag line).
CacheEntryType == {"REQUEST", "ERROR_MSG", "IMAGE", "INVALID"}

TypeValue(t) ==
    CASE t = "REQUEST" -> "api_request"
      [] t = "ERROR_MSG" -> "api_error"
      [] t = "IMAGE" -> "image"
      [] OTHER -> "invalid"

\* EntryStatus, plus NONE for get_entry's None.
EntryStatus == {"ACTIVE", "PENDING"}

\* A file content is a sequence of symbols: a tag value, the line feed, or a
\* payload byte.  NUL fills a hole left by a write behind the end of file.
LF == "\n"
NUL == "nul"
Whitespace == {LF, " "}
\* A byte that is no UTF-8 text (0xff).
NonUtf8 == "xff"

\* Inputs the callers pass: (entry_type, data).  create_request passes the
\* request (REQUEST), fetch_image the image (IMAGE) or an error (ERROR_MSG).
CreateInputs ==
    { [type |-> "REQUEST", data |-> <<"x">>],
      [type |-> "ERROR_MSG", data |-> <<"y", "x">>] }
ActivateInputs ==
    { [type |-> "IMAGE", data |-> <<"x", LF, "y">>],
      [type |-> "ERROR_MSG", data |-> <<"y">>] }
NoInput == [type |-> "INVALID", data |-> <<>>]

\* The request an earlier run of the service left in the pending directory
\* (create_request stores it; startup_event finds it there after a restart).
Leftover == [type |-> "REQUEST", data |-> <<"x">>]

\* ------------------------------------------------------------- file system
NoFile == 0
Inodes == 1 .. (2 * Cardinality(Ids) + Cardinality(Procs))

VARIABLES
    pending_dir,   \* ObjectCache._pending_dir: name -> inode, NoFile if absent
    active_dir,    \* ObjectCache._active_dir: name -> inode, NoFile if absent
    files,         \* inode -> content
    pc,            \* each caller's position in the method it runs
    op,            \* the method a caller runs, or has last run
    entry_id,      \* argument entry_id
    input,         \* arguments (entry_type, data)
    is_expired,    \* argument of prune: the identifiers the predicate marks
    entry,         \* the CacheEntry get_entry builds: status, handle, type, data
    wfd,           \* CacheEntry.write: the inode opened "wb", and the offset
    to_remove,     \* prune: the paths selected for removal
    ret,           \* the value the method returned, RAISED for an exception
    calls,         \* number of calls started
    latest,        \* SpecSeq: the caller whose call started last
    previous,      \* SpecSeq: the caller whose call started before that one
    hb,            \* Spec: <<q, p>>: q's call had returned when p's call started
    unlinked,      \* identifiers some prune has removed
    now,           \* the clock datetime.now(timezone.utc) reads, in seconds
    task,          \* the handler of the service each caller runs, and its locals
    renders,       \* identifier -> number of api.query.chart calls made for it
    codec          \* the identifiers issued and decoded (make_image_id, expiration)

fs == <<pending_dir, active_dir, files>>
locals == <<pc, op, entry_id, input, is_expired, entry, wfd, to_remove, ret>>
history == <<calls, latest, previous, hb, unlinked>>
vars == <<pending_dir, active_dir, files, pc, op, entry_id, input, is_expired,
          entry, wfd, to_remove, ret, calls, latest, previous, hb, unlinked,
          now, task, renders, codec>>
service == <<now, task, renders, codec>>

NoEntry ==
    [status |-> "NONE", handle |-> NoFile, type |-> "INVALID", data |-> <<>>, offset |-> 0]
NoWrite == [inode |-> NoFile, offset |-> 0]

\* ------------------------------------------------------- CacheEntry parsing
\* The content written for (entry_type, data): the tag line, then the data.
Header(t) == <<TypeValue(t), LF>>
Encode(t, d) == Header(t) \o d

\* Position of the first line feed, or 0.
RECURSIVE FirstLF(_, _)
FirstLF(c, k) ==
    IF k > Len(c) THEN 0
    ELSE IF c[k] = LF THEN k
    ELSE FirstLF(c, k + 1)

\* handle.readline(): up to and including the first line feed, or everything.
ReadLine(c) ==
    IF FirstLF(c, 1) = 0 THEN c ELSE SubSeq(c, 1, FirstLF(c, 1))

\* bytes.strip(): leading and trailing whitespace removed.
RECURSIVE StripLeft(_)
StripLeft(s) ==
    IF s # <<>> /\ Head(s) \in Whitespace THEN StripLeft(Tail(s)) ELSE s
RECURSIVE StripRight(_)
StripRight(s) ==
    IF s # <<>> /\ s[Len(s)] \in Whitespace
    THEN StripRight(SubSeq(s, 1, Len(s) - 1))
    ELSE s
Strip(s) == StripRight(StripLeft(s))

\* bytes.decode() returns for UTF-8 text and raises UnicodeDecodeError for any
\* other bytes.
Decodes(header) == \A k \in DOMAIN header : header[k] # NonUtf8

\* The type CacheEntry.__init__ decodes from the first line.
ParseType(line) ==
    LET header == Strip(line) IN
    IF header = <<TypeValue("REQUEST")>> THEN "REQUEST"
    ELSE IF header = <<TypeValue("ERROR_MSG")>> THEN "ERROR_MSG"
    ELSE IF header = <<TypeValue("IMAGE")>> THEN "IMAGE"
    ELSE "INVALID"

\* A write of bytes b at offset off into content c (off symbols kept, a hole
\* filled with NUL, the tail behind the written range kept).
Overlay(c, off, b) ==
    [k \in 1 .. (IF Len(c) > off + Len(b) THEN Len(c) ELSE off + Len(b)) |->
        IF k <= off THEN (IF k <= Len(c) THEN c[k] ELSE NUL)
        ELSE IF k <= off + Len(b) THEN b[k - off]
        ELSE c[k]]

\* BufferedWriter: data that does not fit the buffer beside the tag line is
\* written by a second write call, after the buffered tag line.
LargeData(d) == Len(d) >= 3

\* ---------------------------------------------------------------- inodes
Referenced(pd, ad, en, wf) ==
    {pd[i] : i \in Ids} \cup {ad[i] : i \in Ids}
        \cup {en[p].handle : p \in Procs} \cup {wf[p].inode : p \in Procs}

\* Mutant: a file system that drops the content of a file with its last name,
\* whatever handles are open on it.
Collect_NamesOnly(fl, pd, ad, en, wf) ==
    [n \in Inodes |->
        IF n \in {pd[i] : i \in Ids} \cup {ad[i] : i \in Ids} THEN fl[n] ELSE <<>>]

\* An inode no name and no handle refers to is free; its content is dropped.
Collect(fl, pd, ad, en, wf) ==
    [n \in Inodes |-> IF n \in Referenced(pd, ad, en, wf) THEN fl[n] ELSE <<>>]

FreeInode ==
    CHOOSE n \in Inodes :
        /\ n \notin Referenced(pending_dir, active_dir, entry, wfd)
        /\ \A m \in Inodes :
              m \notin Referenced(pending_dir, active_dir, entry, wfd) => n <= m

\* ObjectCache.__init__ on a base directory: mkdir(exist_ok=True) keeps what an
\* earlier run left there.  The runs start from every set of pending entries
\* left behind, each holding the request written by create_entry.
InodeOf(i) == CHOOSE k \in DOMAIN IdList : IdList[k] = i

\* No handler of the service runs, no identifier has been issued.
NoTask ==
    [handler |-> "none", at |-> "idle", image_id |-> "a", outcome |-> "none",
     todo |-> <<>>, waited |-> 0, response |-> "none", token |-> <<>>]
NoIssue == [content |-> "none", ttl |-> 0, at |-> 0, id |-> <<>>]
\* expiration's None, and the timestamp it returns otherwise.
None == [valid |-> FALSE, ts |-> 0]
Timestamp(n) == [valid |-> TRUE, ts |-> n]
NoProbe == [token |-> <<>>, expiration |-> None, is_expired |-> TRUE, issue |-> NoIssue]

Idle ==
    /\ now = 0
    /\ task = [p \in Procs |-> NoTask]
    /\ renders = [i \in Ids |-> 0]
    /\ codec = [first |-> NoIssue, second |-> NoIssue, probe |-> NoProbe]

Installed ==
    /\ \E P \in SUBSET Ids :
          /\ pending_dir = [i \in Ids |-> IF i \in P THEN InodeOf(i) ELSE NoFile]
          /\ files = [n \in Inodes |->
                        IF \E i \in P : InodeOf(i) = n
                        THEN Encode(Leftover.type, Leftover.data)
                        ELSE <<>>]
    /\ active_dir = [i \in Ids |-> NoFile]
    /\ pc = [p \in Procs |-> "done"]
    /\ op = [p \in Procs |-> "none"]
    /\ entry_id = [p \in Procs |-> CHOOSE i \in Ids : TRUE]
    /\ input = [p \in Procs |-> NoInput]
    /\ is_expired = [p \in Procs |-> {}]
    /\ entry = [p \in Procs |-> NoEntry]
    /\ wfd = [p \in Procs |-> NoWrite]
    /\ to_remove = [p \in Procs |-> <<>>]
    /\ ret = [p \in Procs |-> "NONE"]
    /\ calls = 0
    /\ latest = "nobody"
    /\ previous = "nobody"
    /\ hb = {}
    /\ unlinked = {}

\* The cache on its own: the callers are anything that calls its methods.
Init == Installed /\ Idle


\* ------------------------------------------------------------------ calls
\* The orders in which iterdir may list the names S.
Orders(S) ==
    {s \in [1 .. Cardinality(S) -> S] : \A k, l \in DOMAIN s : k # l => s[k] # s[l]}

Goto(p, l) == pc' = [pc EXCEPT ![p] = l] /\ UNCHANGED ret
Return(p, r) == pc' = [pc EXCEPT ![p] = "done"] /\ ret' = [ret EXCEPT ![p] = r]

\* A caller enters method o at position l.
Call(p, o, i, inp, X, l) ==
    /\ pc[p] = "done"
    /\ calls < MaxCalls
    /\ pc' = [pc EXCEPT ![p] = l]
    /\ op' = [op EXCEPT ![p] = o]
    /\ entry_id' = [entry_id EXCEPT ![p] = i]
    /\ input' = [input EXCEPT ![p] = inp]
    /\ is_expired' = [is_expired EXCEPT ![p] = X]
    /\ entry' = [entry EXCEPT ![p] = NoEntry]
    /\ to_remove' = [to_remove EXCEPT ![p] = <<>>]
    /\ ret' = [ret EXCEPT ![p] = "NONE"]
    /\ calls' = calls + 1
    /\ UNCHANGED <<pending_dir, active_dir, files, wfd, unlinked>>

get_entry(p) ==
    \E i \in Ids : Call(p, "get_entry", i, NoInput, {}, "open_active")

create_entry(p) ==
    \E i \in Ids, inp \in CreateInputs :
        Call(p, "create_entry", i, inp, {}, "open_active")

activate_entry(p) ==
    \E i \in Ids, inp \in ActivateInputs :
        Call(p, "activate_entry", i, inp, {}, "open_active")

prune(p) ==
    \E X \in SUBSET Ids \ {{}} :
        Call(p, "prune", entry_id[p], NoInput, X, "scan_pending")

\* ------------------------------------------------------------- get_entry
\* Mutant: create_entry without the check for an existing entry.
CreateOutcome_NoCheck(status) == "WRITE"

\* What create_entry does with get_entry's answer.
CreateOutcome(status) ==
    IF status # "NONE" THEN "EXISTING" ELSE "WRITE"

\* Mutant: activate_entry without the check of the entry's status.
ActivateOutcome_NoStatusCheck(status) ==
    IF status = "NONE" THEN "FAILED" ELSE "WRITE"

\* What activate_entry does with get_entry's answer.
ActivateOutcome(status) ==
    IF status = "NONE" THEN "FAILED"
    ELSE IF status # "PENDING" THEN "FAILED"
    ELSE "WRITE"

\* get_entry has answered status (with the file opened on inode h): the
\* caller's method goes on.  In create_entry and activate_entry the entry's
\* type and data are read (CacheEntry.__init__) and only logged: the read is
\* part of this step and the handle plays no further part; the exception of a
\* tag line that does not decode leaves the method.
Answered(p, status, h) ==
    LET out == IF op[p] = "create_entry" THEN CreateOutcome(status)
               ELSE ActivateOutcome(status)
    IN
    IF op[p] = "get_entry" THEN
        IF status = "NONE" THEN
            /\ Return(p, "NONE")
            /\ UNCHANGED entry
        ELSE
            /\ Goto(p, "readline")
            /\ entry' = [entry EXCEPT ![p] =
                          [status |-> status, handle |-> h, type |-> "INVALID",
                           data |-> <<>>, offset |-> 0]]
    ELSE
        /\ IF status # "NONE" /\ ~Decodes(Strip(ReadLine(files[h])))
           THEN Return(p, "RAISED")
           ELSE IF out = "WRITE" THEN Goto(p, "write_open") ELSE Return(p, out)
        /\ UNCHANGED entry

\* p = self._active_dir.joinpath(entry_id); handle = p.open("rb")
OpenActive(p) ==
    /\ pc[p] = "open_active"
    /\ IF active_dir[entry_id[p]] # NoFile
       THEN Answered(p, "ACTIVE", active_dir[entry_id[p]])
       ELSE Goto(p, "open_pending") /\ UNCHANGED entry
    /\ UNCHANGED <<fs, op, entry_id, input, is_expired, wfd, to_remove, history>>

\* p = self._pending_dir.joinpath(entry_id); handle = p.open("rb")
OpenPending(p) ==
    /\ pc[p] = "open_pending"
    /\ IF pending_dir[entry_id[p]] # NoFile
       THEN Answered(p, "PENDING", pending_dir[entry_id[p]])
       ELSE Answered(p, "NONE", NoFile)
    /\ UNCHANGED <<fs, op, entry_id, input, is_expired, wfd, to_remove, history>>

\* header = self._handle.readline().strip().decode(): the buffered reader
\* fetches the content present now; the first line gives the type.  Only
\* IOError is caught: the UnicodeDecodeError of decode() leaves __init__ and
\* get_entry, and the handle is closed with the entry.
ReadHeader(p) ==
    /\ pc[p] = "readline"
    /\ LET c == files[entry[p].handle]
           line == ReadLine(c)
       IN IF Decodes(Strip(line)) THEN
              /\ entry' = [entry EXCEPT ![p].type = ParseType(line),
                                        ![p].data = SubSeq(c, Len(line) + 1, Len(c)),
                                        ![p].offset = Len(c)]
              /\ Goto(p, "read")
              /\ UNCHANGED files
          ELSE
              /\ entry' = [entry EXCEPT ![p] = NoEntry]
              /\ Return(p, "RAISED")
              /\ files' = Collect(files, pending_dir, active_dir, entry', wfd)
    /\ UNCHANGED <<pending_dir, active_dir, op, entry_id, input, is_expired, wfd,
                   to_remove, history>>

\* self._data = self._handle.read(): the rest of the buffer, then whatever
\* the file holds behind the offset reached.  get_entry returns the entry.
ReadData(p) ==
    /\ pc[p] = "read"
    /\ LET c == files[entry[p].handle] IN
       entry' = [entry EXCEPT ![p] =
                   [status |-> entry[p].status, handle |-> NoFile,
                    type |-> entry[p].type,
                    data |-> entry[p].data \o SubSeq(c, entry[p].offset + 1, Len(c)),
                    offset |-> 0]]
    /\ Return(p, "ENTRY")
    /\ files' = Collect(files, pending_dir, active_dir, entry', wfd)
    /\ UNCHANGED <<pending_dir, active_dir, op, entry_id, input, is_expired, wfd,
                   to_remove, history>>


\* ------------------------------------------------------- CacheEntry.write
\* with self.path.open("wb") as f: the path is the entry's file in the
\* pending directory (create_entry builds it, activate_entry holds an entry of
\* status PENDING).  The file is created if the name is absent, truncated if
\* it is present.
WriteOpen(p) ==
    /\ pc[p] = "write_open"
    /\ LET i == entry_id[p]
           n == IF pending_dir[i] = NoFile THEN FreeInode ELSE pending_dir[i]
       IN /\ pending_dir' = [pending_dir EXCEPT ![i] = n]
          /\ files' = [files EXCEPT ![n] = <<>>]
          /\ wfd' = [wfd EXCEPT ![p] = [inode |-> n, offset |-> 0]]
    /\ Goto(p, "write")
    /\ UNCHANGED <<active_dir, op, entry_id, input, is_expired, entry, to_remove,
                   history>>

\* The method goes on after CacheEntry.write: create_entry returns CREATED,
\* activate_entry renames the entry.
Written(p) ==
    IF op[p] = "create_entry" THEN Return(p, "CREATED") ELSE Goto(p, "rename")

\* f.write(tag line); f.write(data); f.close(): one write call of the whole
\* content, or the tag line alone when the data is written apart.
Write(p) ==
    /\ pc[p] = "write"
    /\ LET n == wfd[p].inode
           t == input[p].type
           d == input[p].data
       IN IF LargeData(d) THEN
              /\ wfd' = [wfd EXCEPT ![p].offset = Len(Header(t))]
              /\ files' = [files EXCEPT ![n] = Overlay(files[n], 0, Header(t))]
              /\ Goto(p, "write_data")
          ELSE
              /\ wfd' = [wfd EXCEPT ![p] = NoWrite]
              /\ files' = Collect([files EXCEPT ![n] = Overlay(files[n], 0, Encode(t, d))],
                                  pending_dir, active_dir, entry, wfd')
              /\ Written(p)
    /\ UNCHANGED <<pending_dir, active_dir, op, entry_id, input, is_expired, entry,
                   to_remove, history>>

\* The write call of data that did not fit the buffer, and f.close().
WriteData(p) ==
    /\ pc[p] = "write_data"
    /\ LET n == wfd[p].inode IN
       /\ wfd' = [wfd EXCEPT ![p] = NoWrite]
       /\ files' = Collect([files EXCEPT ![n] =
                               Overlay(files[n], wfd[p].offset, input[p].data)],
                           pending_dir, active_dir, entry, wfd')
    /\ Written(p)
    /\ UNCHANGED <<pending_dir, active_dir, op, entry_id, input, is_expired, entry,
                   to_remove, history>>

\* ------------------------------------------------------ CacheEntry.rename
\* Mutant: a move that removes the source name and binds no target name.
RenameTarget_Lost(ad, i, n) == ad

\* The active directory after the rename of inode n to name i: the name is
\* bound to n, whatever it was bound to before.
RenameTarget(ad, i, n) == [ad EXCEPT ![i] = n]

\* self._path.rename(name): the pending name moves to the active directory,
\* replacing an entry of that name; FileNotFoundError if the pending name is
\* gone.
Rename(p) ==
    /\ pc[p] = "rename"
    /\ LET i == entry_id[p] IN
       IF pending_dir[i] = NoFile THEN
           /\ Return(p, "RAISED")
           /\ UNCHANGED fs
       ELSE
           /\ active_dir' = RenameTarget(active_dir, i, pending_dir[i])
           /\ pending_dir' = [pending_dir EXCEPT ![i] = NoFile]
           /\ files' = Collect(files, pending_dir', active_dir', entry, wfd)
           /\ Goto(p, "reopen")
    /\ UNCHANGED <<op, entry_id, input, is_expired, entry, wfd, to_remove, history>>

\* self._handle = Path(name).open("rb"), then activate_entry returns SUCCESS;
\* FileNotFoundError if the active name is gone.
Reopen(p) ==
    /\ pc[p] = "reopen"
    /\ IF active_dir[entry_id[p]] = NoFile
       THEN Return(p, "RAISED")
       ELSE Return(p, "SUCCESS")
    /\ UNCHANGED <<fs, op, entry_id, input, is_expired, entry, wfd, to_remove, history>>

\* ------------------------------------------------------------------ prune
\* Mutant: prune that does not ask is_expired.
Selected_All(dir, X) == {i \in Ids : dir[i] # NoFile}

\* The names of directory dir that is_expired marks.
Selected(dir, X) == {i \in Ids : dir[i] # NoFile /\ i \in X}

Paths(d, order) == [k \in DOMAIN order |-> <<d, order[k]>>]

\* for e in self._pending_dir.iterdir(): if is_expired(eid): to_remove.append(e)
ScanPending(p) ==
    /\ pc[p] = "scan_pending"
    /\ \E order \in Orders(Selected(pending_dir, is_expired[p])) :
          to_remove' = [to_remove EXCEPT ![p] = Paths("pending", order)]
    /\ Goto(p, "scan_active")
    /\ UNCHANGED <<fs, op, entry_id, input, is_expired, entry, wfd, history>>

\* for e in self._active_dir.iterdir(): if is_expired(eid): to_remove.append(e)
\* With nothing to remove prune returns.
ScanActive(p) ==
    /\ pc[p] = "scan_active"
    /\ \E order \in Orders(Selected(active_dir, is_expired[p])) :
          to_remove' = [to_remove EXCEPT ![p] = to_remove[p] \o Paths("active", order)]
    /\ IF to_remove'[p] = <<>> THEN Return(p, "OK") ELSE Goto(p, "unlink")
    /\ UNCHANGED <<fs, op, entry_id, input, is_expired, entry, wfd, history>>

\* for e in to_remove: e.unlink().  FileNotFoundError if the name is gone: the
\* exception leaves prune, the rest of to_remove is not visited.
Unlink(p) ==
    /\ pc[p] = "unlink"
    /\ LET d == to_remove[p][1][1]
           i == to_remove[p][1][2]
           dir == IF d = "pending" THEN pending_dir ELSE active_dir
       IN IF dir[i] = NoFile THEN
              /\ Return(p, "RAISED")
              /\ UNCHANGED <<fs, to_remove, unlinked>>
          ELSE
              /\ pending_dir' = IF d = "pending"
                                THEN [pending_dir EXCEPT ![i] = NoFile]
                                ELSE pending_dir
              /\ active_dir' = IF d = "active"
                               THEN [active_dir EXCEPT ![i] = NoFile]
                               ELSE active_dir
              /\ files' = Collect(files, pending_dir', active_dir', entry, wfd)
              /\ to_remove' = [to_remove EXCEPT ![p] = Tail(to_remove[p])]
              /\ unlinked' = unlinked \cup {i}
              /\ IF Tail(to_remove[p]) = <<>> THEN Return(p, "OK") ELSE Goto(p, "unlink")
    /\ UNCHANGED <<op, entry_id, input, is_expired, entry, wfd, calls, latest, previous, hb>>

\* ---------------------------------------------------------- specifications
Step(p) ==
    \/ OpenActive(p)
    \/ OpenPending(p)
    \/ ReadHeader(p)
    \/ ReadData(p)
    \/ WriteOpen(p)
    \/ Write(p)
    \/ WriteData(p)
    \/ Rename(p)
    \/ Reopen(p)
    \/ ScanPending(p)
    \/ ScanActive(p)
    \/ Unlink(p)

Enter(p) ==
    \/ get_entry(p)
    \/ create_entry(p)
    \/ activate_entry(p)
    \/ prune(p)

\* History of overlapping calls: which calls had returned when p's call
\* started.  (The other callers' calls overlap it.)
Overlapping(p) ==
    /\ hb' = {pr \in hb : pr[1] # p /\ pr[2] # p}
                \cup {<<q, p>> : q \in {r \in Procs \ {p} : pc[r] = "done" /\ op[r] # "none"}}
    /\ UNCHANGED <<latest, previous>>

\* History of calls made one after the other: whose call it is, and whose
\* call came before it.
InSequence(p) ==
    /\ latest' = p
    /\ previous' = latest
    /\ UNCHANGED hb

\* Concurrent callers: the steps of their calls interleave.
Next ==
    /\ \E p \in Procs : (Enter(p) /\ Overlapping(p)) \/ Step(p)
    /\ UNCHANGED service

Spec == Init /\ [][Next]_vars

\* One call at a time: a call starts when every other call has returned.
Quiet == \A q \in Procs : pc[q] = "done"

NextSeq ==
    /\ \E p \in Procs : (Quiet /\ Enter(p) /\ InSequence(p)) \/ Step(p)
    /\ UNCHANGED service

SpecSeq == Init /\ [][NextSeq]_vars

\* ------------------------------------------------------------------ claims
Present(i) == pending_dir[i] # NoFile \/ active_dir[i] # NoFile

Done(p, o) == pc[p] = "done" /\ op[p] = o

\* The type and data an open of inode n reads (CacheEntry.__init__).
StoredEntry(n) ==
    LET c == files[n]
        line == ReadLine(c)
    IN [type |-> ParseType(line), data |-> SubSeq(c, Len(line) + 1, Len(c))]

\* p's and q's calls overlapped: neither had returned when the other started.
Concurrent(p, q) == p # q /\ <<p, q>> \notin hb /\ <<q, p>> \notin hb

\* C1: under any interleaving of create_entry, activate_entry and prune, an
\* identifier is present in at most one of the pending and active directories.
C1_AtMostOneDirectory ==
    \A i \in Ids : ~(pending_dir[i] # NoFile /\ active_dir[i] # NoFile)

\* C2: two concurrent create_entry calls with the same identifier, of which
\* one returned CREATED: the other returned EXISTING, and the stored file is
\* the one written by the call that returned CREATED.
C2_CreateRaceOneWinner ==
    \A p, q \in Procs :
        ( /\ Concurrent(p, q)
          /\ Done(p, "create_entry") /\ Done(q, "create_entry")
          /\ entry_id[p] = entry_id[q]
          /\ entry_id[p] \notin unlinked
          /\ ret[p] = "CREATED" )
        => /\ ret[q] = "EXISTING"
           /\ pending_dir[entry_id[p]] # NoFile
           /\ files[pending_dir[entry_id[p]]] = Encode(input[p].type, input[p].data)

\* C3: create_entry called twice in sequence with the same identifier returns
\* CREATED, then EXISTING, and the entry still stores the type and the data
\* passed to the first call.
C3_CreateTwice ==
    \A p, q \in Procs :
        ( /\ Quiet /\ p # q /\ previous = p /\ latest = q
          /\ op[p] = "create_entry" /\ op[q] = "create_entry"
          /\ entry_id[p] = entry_id[q]
          /\ ret[p] = "CREATED" )
        => /\ ret[q] = "EXISTING"
           /\ pending_dir[entry_id[p]] # NoFile
           /\ active_dir[entry_id[p]] = NoFile
           /\ StoredEntry(pending_dir[entry_id[p]]) = input[p]

\* C3's case: a second create_entry of the identifier, with other data, has
\* returned.
C3_Witness ==
    \E p, q \in Procs :
        /\ Quiet /\ p # q /\ previous = p /\ latest = q
        /\ op[p] = "create_entry" /\ op[q] = "create_entry"
        /\ entry_id[p] = entry_id[q]
        /\ ret[p] = "CREATED" /\ ret[q] = "EXISTING"
        /\ input[q] # input[p]

\* C4: every get_entry that returns status ACTIVE returns the type and the
\* data passed to one activate_entry call, never a truncated or empty file.
C4_NoPartialActive ==
    \A p \in Procs :
        (Done(p, "get_entry") /\ ret[p] = "ENTRY" /\ entry[p].status = "ACTIVE")
        => \E inp \in ActivateInputs :
              entry[p].type = inp.type /\ entry[p].data = inp.data

\* C5: after activate_entry(id, type, data) has returned SUCCESS, a get_entry(id)
\* that starts later, the identifier not pruned, returns status ACTIVE with
\* that type and that data.
C5_ReadAfterActivate ==
    \A q, p \in Procs :
        ( /\ Done(q, "activate_entry") /\ ret[q] = "SUCCESS"
          /\ Done(p, "get_entry") /\ entry_id[p] = entry_id[q]
          /\ <<q, p>> \in hb
          /\ entry_id[q] \notin unlinked )
        => /\ ret[p] = "ENTRY"
           /\ entry[p].status = "ACTIVE"
           /\ entry[p].type = input[q].type
           /\ entry[p].data = input[q].data

\* C6: for an identifier (not pruned in between) at most one activate_entry
\* call returns SUCCESS, also when promoters call concurrently.
C6_PromotedOnce ==
    \A p, q \in Procs :
        ( /\ p # q
          /\ Done(p, "activate_entry") /\ Done(q, "activate_entry")
          /\ entry_id[p] = entry_id[q]
          /\ entry_id[p] \notin unlinked )
        => ~(ret[p] = "SUCCESS" /\ ret[q] = "SUCCESS")

\* C7: activate_entry whose lookup finds the identifier ACTIVE, or absent from
\* both directories, returns FAILED, and no step of the lookup changes the
\* directories or the files.
C7_ActivateRejected ==
    [][\A p \in Procs :
          (op[p] = "activate_entry" /\ pc'[p] # pc[p]) =>
             /\ pc[p] \in {"open_active", "open_pending"} => fs' = fs
             /\ ( \/ pc[p] = "open_active" /\ active_dir[entry_id[p]] # NoFile
                  \/ /\ pc[p] = "open_pending"
                     /\ pending_dir[entry_id[p]] = NoFile
                     /\ active_dir[entry_id[p]] = NoFile )
                => (pc'[p] = "done" /\ ret'[p] = "FAILED")]_vars

\* C7's cases: an activate_entry of an ACTIVE identifier and one of an absent
\* identifier have returned FAILED.
C7_Witness ==
    \E p, q \in Procs :
        /\ Done(p, "activate_entry") /\ ret[p] = "FAILED"
        /\ active_dir[entry_id[p]] # NoFile
        /\ Done(q, "activate_entry") /\ ret[q] = "FAILED"
        /\ ~Present(entry_id[q])

\* C8: prune(is_expired), run with no other call in progress, leaves every
\* identifier that is_expired does not mark in place with its directory and
\* its content, and when it returns no marked identifier is left in the
\* pending or the active directory.
C8_PruneRemovesExpired ==
    [][\A p \in Procs :
          (op[p] = "prune" /\ pc[p] # "done") =>
             /\ \A i \in Ids \ is_expired[p] :
                   /\ pending_dir'[i] = pending_dir[i]
                   /\ active_dir'[i] = active_dir[i]
                   /\ pending_dir[i] # NoFile =>
                         files'[pending_dir[i]] = files[pending_dir[i]]
                   /\ active_dir[i] # NoFile =>
                         files'[active_dir[i]] = files[active_dir[i]]
             /\ pc'[p] = "done" =>
                   /\ ret'[p] = "OK"
                   /\ \A i \in is_expired[p] : ~Present(i)']_vars

\* C8's case: a prune has returned after removing a marked identifier from
\* the active directory (the call before it promoted the identifier), an
\* unmarked one being in the store.
C8_Witness ==
    \E p, q \in Procs :
        /\ Quiet /\ latest = p /\ previous = q /\ p # q
        /\ Done(p, "prune") /\ ret[p] = "OK"
        /\ Done(q, "activate_entry") /\ ret[q] = "SUCCESS"
        /\ entry_id[q] \in is_expired[p] /\ entry_id[q] \in unlinked
        /\ \E j \in Ids \ is_expired[p] : Present(j)

\* C9: prune does not fail when a selected file has disappeared before its
\* unlink: it returns normally, having visited every selected path.
C9_PruneTolerant ==
    \A p \in Procs :
        Done(p, "prune") => (ret[p] = "OK" /\ to_remove[p] = <<>>)

\* C10: no step of get_entry, create_entry or activate_entry removes an
\* identifier from the store (the identifiers in pending or active).
C10_OnlyPruneDestroys ==
    [][\A p \in Procs :
          ( /\ op[p] \in {"get_entry", "create_entry", "activate_entry"}
            /\ pc[p] # "done"
            /\ pc'[p] # pc[p] )
          => \A i \in Ids : Present(i) => Present(i)']_vars

\* C10's case: activate_entry has moved an entry out of the pending directory.
C10_Witness ==
    \E p \in Procs :
        /\ op[p] = "activate_entry" /\ pc[p] = "reopen"
        /\ pending_dir[entry_id[p]] = NoFile
        /\ active_dir[entry_id[p]] # NoFile

\* ------------------------------------------------------ identifier codec
\* Bounds of the codec: the clock's last reading, the longest token decoded.
MaxTime == 2
MaxLen == 3

\* Settings.default_ttl
default_ttl == 300

\* The requests' contents and lifetimes (ImageRequest.api_query, .ttl).
Contents == {"q1", "q2"}
TTLs == {1, 2, default_ttl}

\* hashlib.sha256(str(api_query).encode()).hexdigest(): a text of hexadecimal
\* digits, different for different contents.
Digest(api_query) ==
    IF api_query = "q1" THEN <<"c", "1">> ELSE <<"c", "0">>

DigitChars == <<"0", "1", "2", "3", "4", "5", "6", "7", "8", "9">>
HexChars == {DigitChars[k] : k \in DOMAIN DigitChars} \cup {"a", "b", "c", "d", "e", "f"}
Separator == "_"

\* str of a whole number.
RECURSIVE Decimal(_)
Decimal(n) ==
    IF n < 10 THEN <<DigitChars[n + 1]>>
    ELSE Decimal(n \div 10) \o <<DigitChars[(n % 10) + 1]>>

\* Mutant: a timestamp text that keeps the last digit of the seconds only.
FloatText_LastDigit(n) == <<DigitChars[(n % 10) + 1], ".", "0">>

\* f"{t.timestamp()}": the float of a whole second prints with fraction .0
FloatText(n) == Decimal(n) \o <<".", "0">>

\* Mutant: an identifier that carries the lifetime instead of the expiry.
Expiry_TtlOnly(at, ttl) == ttl

\* t = datetime.now(timezone.utc) + timedelta(seconds=ttl)
Expiry(at, ttl) == at + ttl

\* make_image_id, called when the clock reads `now`.
make_image_id(api_query, ttl) ==
    Digest(api_query) \o <<Separator>> \o FloatText(Expiry(now, ttl))

\* str.split(sep): the fields between the separators.
RECURSIVE Split(_, _)
Split(s, sep) ==
    IF \A k \in DOMAIN s : s[k] # sep THEN <<s>>
    ELSE LET k == CHOOSE j \in DOMAIN s :
                      s[j] = sep /\ \A l \in 1 .. (j - 1) : s[l] # sep
         IN <<SubSeq(s, 1, k - 1)>> \o Split(SubSeq(s, k + 1, Len(s)), sep)

DigitValue(c) == (CHOOSE k \in DOMAIN DigitChars : DigitChars[k] = c) - 1
IsDigits(s) == \A k \in DOMAIN s : \E d \in DOMAIN DigitChars : DigitChars[d] = s[k]

RECURSIVE Number(_)
Number(s) ==
    IF s = <<>> THEN 0
    ELSE 10 * Number(SubSeq(s, 1, Len(s) - 1)) + DigitValue(s[Len(s)])

\* float(text) for the texts made of digits and a point: digits, an optional
\* point, digits, with one digit at least; ValueError (None) for any other
\* text.  The value is given in whole seconds (the clock reads whole seconds,
\* so the fraction plays no part in a comparison with it).
ParseFloat(text) ==
    LET t == Strip(text)
        parts == Split(t, ".")
    IN IF Len(parts) > 2 THEN None
       ELSE IF \E k \in DOMAIN parts : ~IsDigits(parts[k]) THEN None
       ELSE IF \A k \in DOMAIN parts : parts[k] = <<>> THEN None
       ELSE Timestamp(Number(parts[1]))

\* Mutant: the timestamp taken from the last field.
TimestampField_Last(fields) == Len(fields)

\* image_id.split("_")[1]: the index of the field read.
TimestampField(fields) == 2

\* expiration(image_id): the timestamp, or None when a step raises
\* (IndexError for a missing field, ValueError for a field float rejects).
expiration(image_id) ==
    LET fields == Split(image_id, Separator)
    IN IF Len(fields) < TimestampField(fields) THEN None
       ELSE ParseFloat(fields[TimestampField(fields)])

\* is_expired(image_id), called when the clock reads `now`.
IsExpired(image_id) ==
    LET ts == expiration(image_id)
    IN IF ts = None THEN TRUE ELSE ts.ts < now

\* The tokens decoded: every text of at most MaxLen characters of Alphabet.
Alphabet == {"c", Separator, "1"}
Tokens == UNION {[1 .. n -> Alphabet] : n \in 0 .. MaxLen}

Tick ==
    /\ now < MaxTime
    /\ now' = now + 1
    /\ UNCHANGED <<task, renders, codec>>

\* A request (api_query, ttl) is given its identifier.
Issue ==
    /\ \E c \in Contents, ttl \in TTLs :
          codec' = [codec EXCEPT
                      !.second = codec.first,
                      !.first = [content |-> c, ttl |-> ttl, at |-> now,
                                 id |-> make_image_id(c, ttl)]]
    /\ UNCHANGED <<now, task, renders>>

\* expiration and is_expired applied to token t; `issue` is the call of
\* make_image_id the token comes from, if it comes from one.
Decoded(t, issue) ==
    /\ codec' = [codec EXCEPT
                   !.probe = [token |-> t, expiration |-> expiration(t),
                              is_expired |-> IsExpired(t), issue |-> issue]]
    /\ UNCHANGED <<now, task, renders>>

\* An identifier received in a request is decoded.
Decode == \E t \in Tokens : Decoded(t, NoIssue)

\* An identifier is decoded as soon as make_image_id has returned it.
DecodeIssued ==
    \E c \in Contents, ttl \in TTLs :
        Decoded(make_image_id(c, ttl),
                [content |-> c, ttl |-> ttl, at |-> now, id |-> make_image_id(c, ttl)])

\* The codec on its own: the cache directory is empty and stays so.
Unused == Init /\ \A i \in Ids : pending_dir[i] = NoFile

\* Identifiers are issued as the clock advances.
NextCodec ==
    /\ Tick \/ Issue
    /\ UNCHANGED <<fs, locals, history>>

SpecCodec == Unused /\ [][NextCodec]_vars

\* Identifiers are decoded as the clock advances.
NextDecode ==
    /\ Tick \/ Decode \/ DecodeIssued
    /\ UNCHANGED <<fs, locals, history>>

SpecDecode == Unused /\ [][NextDecode]_vars

\* ------------------------------------------------------- claims C11, C12
\* Two calls of make_image_id have been made for the same (api_query, ttl).
SameRequestTwice ==
    /\ codec.first # NoIssue
    /\ codec.second # NoIssue
    /\ codec.first.content = codec.second.content
    /\ codec.first.ttl = codec.second.ttl

\* C11 as stated: two calls of make_image_id with the same api_query and the
\* same ttl, made at any two instants, return the same identifier.
C11_SameRequestSameId ==
    SameRequestTwice => codec.first.id = codec.second.id

\* C11 as amended: two calls of make_image_id with the same api_query and the
\* same ttl return the same identifier when they are made at the same reading
\* of the clock, and different identifiers when they are made at different
\* readings.
C11_SameInstantSameId ==
    SameRequestTwice =>
        (codec.first.id = codec.second.id <=> codec.first.at = codec.second.at)

C11_Witness ==
    /\ SameRequestTwice
    /\ codec.first.at = codec.second.at
    /\ codec.first.at > 0
    /\ codec.first.id = codec.second.id
    /\ codec.first.id # <<>>

\* The text is a number as float reads it: digits and at most one point, one
\* digit at least.
IsNumberText(s) ==
    /\ \A k \in DOMAIN s : s[k] = "." \/ IsDigits(<<s[k]>>)
    /\ Cardinality({k \in DOMAIN s : s[k] = "."}) <= 1
    /\ \E k \in DOMAIN s : s[k] # "."

\* The positions of the separators in token t.
Separators(t) == {k \in DOMAIN t : t[k] = Separator}

\* The token has a field behind its first separator, and that field (up to the
\* second separator or the end) is a number.
HasTimestampField(t) ==
    \E j \in Separators(t) :
        /\ \A l \in Separators(t) : j <= l
        /\ \E k \in (Separators(t) \ {j}) \cup {Len(t) + 1} :
              /\ \A l \in Separators(t) \ {j} : k <= l
              /\ IsNumberText(SubSeq(t, j + 1, k - 1))

\* The token is a hash, one separator and a timestamp: hexadecimal digits, the
\* separator, a number.
WellFormed(t) ==
    /\ Cardinality(Separators(t)) = 1
    /\ \E j \in Separators(t) :
          /\ j > 1
          /\ \A k \in 1 .. (j - 1) : t[k] \in HexChars
          /\ IsNumberText(SubSeq(t, j + 1, Len(t)))

\* expiration(make_image_id(content, ttl)) is the instant of the call plus ttl.
RoundTrip ==
    codec.probe.issue # NoIssue =>
        codec.probe.expiration =
            Timestamp(codec.probe.issue.at + codec.probe.issue.ttl)

NextLookup ==
    /\ \E p \in Procs :
          \/ (get_entry(p) \/ activate_entry(p)) /\ Overlapping(p)
          \/ OpenActive(p)
          \/ OpenPending(p)
          \/ ReadHeader(p)
          \/ ReadData(p)
          \/ WriteOpen(p)
          \/ Write(p)
          \/ WriteData(p)
          \/ Rename(p)
          \/ Reopen(p)
    /\ UNCHANGED service

SpecLookup == Init /\ [][NextLookup]_vars

\* C16: get_entry(id) running beside activate_entry(id) never returns absent
\* for an entry that is in the store throughout the lookup (under SpecLookup
\* nothing creates or removes an entry: an identifier present when get_entry
\* returns was present all along).
C16_LookupFindsEntry ==
    \A p \in Procs :
        Done(p, "get_entry") /\ Present(entry_id[p]) => ret[p] # "NONE"

\* C17: a get_entry running beside create_entry or beside the write of
\* activate_entry returns absent, or a pending entry whose type and data are
\* the complete values of one write, never type INVALID or an empty or
\* truncated payload.
C17_NoPartialPending ==
    \A p \in Procs :
        Done(p, "get_entry") /\ ret[p] = "ENTRY" /\ entry[p].status = "PENDING" =>
            [type |-> entry[p].type, data |-> entry[p].data]
                \in CreateInputs \cup ActivateInputs \cup {Leftover}

\* ---------------------------------------------------------- the service
\* The request the clients send (RequestData.api_query), and the texts the
\* identifiers "a" and "b" stand for: the identifiers make_image_id gives this
\* request with expiry 1 and with expiry 2.
Query == "q1"
IdText(i) == Digest(Query) \o <<Separator>> \o FloatText(InodeOf(i))
Named(image_id) == \E i \in Ids : IdText(i) = image_id
NameOf(image_id) == CHOOSE i \in Ids : IdText(i) = image_id

\* prune(is_expired): the identifiers is_expired marks when the clock reads now.
Expired == {i \in Ids : IsExpired(IdText(i))}

\* api.query.chart(query): the image, or one of the exceptions of the client.
RenderOutcomes == {"image", "TimedOutError", "KentikAPIError status_code", "KentikAPIError"}

\* Mutant: fetch_image that stores every outcome as an image.
RenderedType_Image(outcome) == "IMAGE"

\* The type fetch_image passes to activate_entry for an outcome of the call.
RenderedType(outcome) ==
    IF outcome = "image" THEN "IMAGE" ELSE "ERROR_MSG"

\* The (entry_type, data) fetch_image passes to activate_entry.
Rendered(outcome) ==
    CHOOSE inp \in ActivateInputs : inp.type = RenderedType(outcome)

\* The worker can take a request: it runs no handler, or its handler has
\* returned (create_request on EXISTING, fetch_image after activate_entry).
Free(p) ==
    /\ pc[p] = "done"
    /\ \/ task[p].handler = "none"
       \/ task[p].handler = "create_request" /\ ret[p] = "EXISTING"
       \/ task[p].handler = "fetch_image" /\ task[p].at = "activate"

\* create_request: iid = make_image_id(...); r = cache.create_entry(iid,
\* CacheEntryType.REQUEST, json.dumps(api_query))
create_request(p) ==
    /\ Free(p)
    /\ \E ttl \in TTLs :
          /\ Named(make_image_id(Query, ttl))
          /\ Call(p, "create_entry", NameOf(make_image_id(Query, ttl)), Leftover,
                  {}, "open_active")
          /\ task' = [task EXCEPT ![p] =
                        [NoTask EXCEPT !.handler = "create_request",
                                       !.at = "create_entry",
                                       !.image_id = NameOf(make_image_id(Query, ttl))]]
    /\ UNCHANGED <<now, renders, codec, hb, latest, previous>>

\* create_request, r not EXISTING: background_tasks.add_task(fetch_image, iid,
\* ...); the task runs fetch_image up to the return of api.query.chart(query).
fetch_image(p) ==
    /\ pc[p] = "done"
    /\ task[p].handler = "create_request"
    /\ ret[p] # "EXISTING"
    /\ \E o \in RenderOutcomes :
          task' = [task EXCEPT ![p] =
                     [task[p] EXCEPT !.handler = "fetch_image", !.at = "chart",
                                     !.outcome = o]]
    /\ renders' = [renders EXCEPT ![task[p].image_id] = @ + 1]
    /\ UNCHANGED <<fs, locals, history, now, codec>>

\* fetch_image: cache.activate_entry(image_id, type, data), in the try body or
\* in the except clause of the outcome.  Called from startup_event, fetch_image
\* then returns into the loop over the pending entries.
StoreOutcome(p) ==
    /\ pc[p] = "done"
    /\ task[p].at = "chart"
    /\ Call(p, "activate_entry", task[p].image_id, Rendered(task[p].outcome), {},
            "open_active")
    /\ task' = [task EXCEPT ![p].at =
                  IF task[p].handler = "startup_event" THEN "replay" ELSE "activate"]
    /\ UNCHANGED <<now, renders, codec, hb, latest, previous>>

\* Two workers serve the requests; the clock advances.
NextRequests ==
    \/ Tick /\ UNCHANGED <<fs, locals, history>>
    \/ \E p \in Procs :
          \/ create_request(p)
          \/ fetch_image(p)
          \/ StoreOutcome(p)
          \/ OpenActive(p) /\ UNCHANGED service
          \/ OpenPending(p) /\ UNCHANGED service
          \/ WriteOpen(p) /\ UNCHANGED service
          \/ Write(p) /\ UNCHANGED service
          \/ WriteData(p) /\ UNCHANGED service
          \/ Rename(p) /\ UNCHANGED service
          \/ Reopen(p) /\ UNCHANGED service

SpecRequests == Init /\ [][NextRequests]_vars

\* ------------------------------------------------------------- claim C13
\* C13: the remote render is invoked at most once per identifier.
C13_RenderedOnce == \A i \in Ids : renders[i] <= 1

\* run_cache_pruning: while True: await asyncio.sleep(period);
\* c.prune(is_expired).  An exception of prune leaves the loop: the task has
\* ended, no pass follows.
run_cache_pruning(p) ==
    /\ task[p].handler = "run_cache_pruning"
    /\ pc[p] = "done"
    /\ ret[p] # "RAISED"
    /\ Call(p, "prune", entry_id[p], NoInput, Expired, "scan_pending")
    /\ UNCHANGED <<service, hb, latest, previous>>

PruningEnded(p) ==
    task[p].handler = "run_cache_pruning" /\ pc[p] = "done" /\ ret[p] = "RAISED"

\* The service after startup_event: the periodic pruning task is scheduled,
\* the worker waits for requests.
Serving ==
    /\ Installed
    /\ now = 0
    /\ task = [p \in Procs |->
                 IF p = "p2"
                 THEN [NoTask EXCEPT !.handler = "run_cache_pruning", !.at = "sleep"]
                 ELSE NoTask]
    /\ renders = [i \in Ids |-> 0]
    /\ codec = [first |-> NoIssue, second |-> NoIssue, probe |-> NoProbe]

\* A worker serves the requests beside the pruning task; the clock advances.
NextService ==
    \/ Tick /\ UNCHANGED <<fs, locals, history>>
    \/ \E p \in Procs :
          \/ create_request(p)
          \/ fetch_image(p)
          \/ StoreOutcome(p)
          \/ run_cache_pruning(p)
          \/ OpenActive(p) /\ UNCHANGED service
          \/ OpenPending(p) /\ UNCHANGED service
          \/ WriteOpen(p) /\ UNCHANGED service
          \/ Write(p) /\ UNCHANGED service
          \/ WriteData(p) /\ UNCHANGED service
          \/ Rename(p) /\ UNCHANGED service
          \/ Reopen(p) /\ UNCHANGED service
          \/ ScanPending(p) /\ UNCHANGED service
          \/ ScanActive(p) /\ UNCHANGED service
          \/ Unlink(p) /\ UNCHANGED service

SpecService == Serving /\ [][NextService]_vars

\* -------------------------------------------------------- claims C18, C19
\* C18: the periodic pruning task keeps running, so that an identifier whose
\* expiry has passed does not remain in pending or active indefinitely: the
\* task has never ended while an expired identifier is in the store.
C18_ExpiredRemoved ==
    \A p \in Procs, i \in Ids :
        PruningEnded(p) => ~(Present(i) /\ i \in Expired)

\* fetch_image has returned from activate_entry.
FetchEnded(p) ==
    task[p].handler = "fetch_image" /\ task[p].at = "activate" /\ pc[p] = "done"

\* C19: for each outcome of the render call fetch_image ends by calling
\* activate_entry for its identifier, with type IMAGE on success and ERROR_MSG
\* on failure, and when fetch_image has ended the entry created is ACTIVE
\* unless a prune has removed it.
C19_FetchActivates ==
    \A p \in Procs :
        /\ task[p].handler = "fetch_image" /\ task[p].at = "activate" =>
              /\ op[p] = "activate_entry"
              /\ entry_id[p] = task[p].image_id
              /\ input[p].type = "IMAGE" <=> task[p].outcome = "image"
              /\ input[p].type = "ERROR_MSG" <=> task[p].outcome # "image"
        /\ FetchEnded(p) =>
              \/ active_dir[task[p].image_id] # NoFile
              \/ task[p].image_id \in unlinked

C19_Witness ==
    \E p \in Procs :
        /\ FetchEnded(p)
        /\ task[p].outcome = "TimedOutError"
        /\ ret[p] = "SUCCESS"
        /\ active_dir[task[p].image_id] # NoFile
        /\ StoredEntry(active_dir[task[p].image_id]).type = "ERROR_MSG"
        /\ task[p].image_id \notin unlinked

\* --------------------------------------------------------- startup_event
\* What an earlier run of the service left of identifier i in the pending
\* directory: nothing, the request create_entry wrote, or the empty file of a
\* create_entry that was interrupted between open("wb") and the write.
Remains == {"absent", "request", "empty"}

\* The process starts on the directory an earlier run left, at any reading of
\* the clock, and runs startup_event.
Restarted ==
    /\ \E left \in [Ids -> Remains] :
          /\ pending_dir = [i \in Ids |->
                              IF left[i] = "absent" THEN NoFile ELSE InodeOf(i)]
          /\ files = [n \in Inodes |->
                        IF \E i \in Ids : InodeOf(i) = n /\ left[i] = "request"
                        THEN Encode(Leftover.type, Leftover.data)
                        ELSE <<>>]
    /\ active_dir = [i \in Ids |-> NoFile]
    /\ pc = [p \in Procs |-> "done"]
    /\ op = [p \in Procs |-> "none"]
    /\ entry_id = [p \in Procs |-> CHOOSE i \in Ids : TRUE]
    /\ input = [p \in Procs |-> NoInput]
    /\ is_expired = [p \in Procs |-> {}]
    /\ entry = [p \in Procs |-> NoEntry]
    /\ wfd = [p \in Procs |-> NoWrite]
    /\ to_remove = [p \in Procs |-> <<>>]
    /\ ret = [p \in Procs |-> "NONE"]
    /\ calls = 0
    /\ latest = "nobody"
    /\ previous = "nobody"
    /\ hb = {}
    /\ unlinked = {}
    /\ now \in 0 .. MaxTime
    /\ task = [p \in Procs |->
                 IF p = "p1"
                 THEN [NoTask EXCEPT !.handler = "startup_event", !.at = "start"]
                 ELSE NoTask]
    /\ renders = [i \in Ids |-> 0]
    /\ codec = [first |-> NoIssue, second |-> NoIssue, probe |-> NoProbe]

\* Mutant: a startup that prunes nothing.
ExpiredAtStartup_None == {}

\* startup_event: the identifiers is_expired marks in cache.prune(is_expired).
ExpiredAtStartup == Expired

\* startup_event: cache.prune(is_expired)
startup_event(p) ==
    /\ task[p].handler = "startup_event"
    /\ task[p].at = "start"
    /\ Call(p, "prune", entry_id[p], NoInput, ExpiredAtStartup, "scan_pending")
    /\ task' = [task EXCEPT ![p].at = "prune"]
    /\ UNCHANGED <<now, renders, codec, hb, latest, previous>>

\* for e in cache.pending_entries: iterdir lists the pending directory.  An
\* exception of prune leaves startup_event.
pending_entries(p) ==
    /\ task[p].handler = "startup_event"
    /\ task[p].at = "prune"
    /\ pc[p] = "done"
    /\ IF ret[p] = "RAISED"
       THEN task' = [task EXCEPT ![p].at = "raised"]
       ELSE \E order \in Orders({i \in Ids : pending_dir[i] # NoFile}) :
               task' = [task EXCEPT ![p].at = "replay", ![p].todo = order]
    /\ UNCHANGED <<fs, locals, history, now, renders, codec>>

\* CacheEntry.uid: the identifier of the entry, the name of its file.
uid(i) == i

\* json.loads(e.data.decode()) returns for the text json.dumps wrote, and
\* raises JSONDecodeError for an empty text.
IsJson(data) == data = Leftover.data

\* The body of the loop, up to the return of api.query.chart in fetch_image:
\* the generator opens and reads the next entry (CacheEntry(handle=
\* f.open("rb"))), then fetch_image(e.uid, json.loads(e.data.decode())).  With
\* no entry left startup_event schedules run_cache_pruning and is complete.  An
\* exception (of activate_entry in the pass before, of open, of json.loads)
\* leaves startup_event.
Replay(p) ==
    /\ task[p].handler = "startup_event"
    /\ task[p].at = "replay"
    /\ pc[p] = "done"
    /\ IF ret[p] = "RAISED" THEN
           /\ task' = [task EXCEPT ![p].at = "raised"]
           /\ UNCHANGED renders
       ELSE IF task[p].todo = <<>> THEN
           /\ task' = [task EXCEPT ![p].at = "complete"]
           /\ UNCHANGED renders
       ELSE LET i == Head(task[p].todo) IN
           IF pending_dir[i] = NoFile \/ ~IsJson(StoredEntry(pending_dir[i]).data) THEN
               /\ task' = [task EXCEPT ![p].at = "raised"]
               /\ UNCHANGED renders
           ELSE
               /\ \E o \in RenderOutcomes :
                     task' = [task EXCEPT ![p].at = "chart",
                                          ![p].image_id = uid(i),
                                          ![p].outcome = o,
                                          ![p].todo = Tail(task[p].todo)]
               /\ renders' = [renders EXCEPT ![uid(i)] = @ + 1]
    /\ UNCHANGED <<fs, locals, history, now, codec>>

\* One process starts.
NextStartup ==
    \E p \in Procs :
        \/ startup_event(p)
        \/ pending_entries(p)
        \/ Replay(p)
        \/ StoreOutcome(p)
        \/ OpenActive(p) /\ UNCHANGED service
        \/ OpenPending(p) /\ UNCHANGED service
        \/ WriteOpen(p) /\ UNCHANGED service
        \/ Write(p) /\ UNCHANGED service
        \/ WriteData(p) /\ UNCHANGED service
        \/ Rename(p) /\ UNCHANGED service
        \/ Reopen(p) /\ UNCHANGED service
        \/ ScanPending(p) /\ UNCHANGED service
        \/ ScanActive(p) /\ UNCHANGED service
        \/ Unlink(p) /\ UNCHANGED service

SpecStartup == Restarted /\ [][NextStartup]_vars

\* ------------------------------------------------------------- claim C20
\* Under SpecStartup an identifier was in the pending directory when the
\* process started exactly if it is in the store or has been pruned.
PendingAtStartup(i) == Present(i) \/ i \in unlinked

StartupComplete(p) ==
    task[p].handler = "startup_event" /\ task[p].at = "complete"

\* C20: startup prunes first and then replays the render for each entry still
\* pending: when startup_event completes, an entry that was pending and
\* expired when the process started has been removed and not rendered, and an
\* entry that was pending and not expired has been rendered once and is ACTIVE.
C20_StartupReplays ==
    \A p \in Procs, i \in Ids :
        StartupComplete(p) /\ PendingAtStartup(i) =>
            IF IsExpired(IdText(i))
            THEN ~Present(i) /\ renders[i] = 0
            ELSE /\ active_dir[i] # NoFile
                 /\ pending_dir[i] = NoFile
                 /\ renders[i] = 1
                 /\ StoredEntry(active_dir[i]).type \in {"IMAGE", "ERROR_MSG"}

C20_Witness ==
    \E p \in Procs :
        /\ StartupComplete(p)
        /\ \E i \in Ids : i \in unlinked /\ renders[i] = 0 /\ ~Present(i)
        /\ \E i \in Ids : active_dir[i] # NoFile /\ renders[i] = 1

\* -------------------------------------------------------------- get_image
\* Settings of src/main.py and src/app/main.py.
status_poll_period == 3
kentik_api_retries == 3
kentik_api_timeout == 60
entry_wait_timeout == kentik_api_retries * kentik_api_timeout + 5

\* The worker that serves GET /images/{image_id}, and the worker that runs
\* the fetch_image of an earlier request.
Reader == "p1"
Renderer == "p2"

\* The service with a request in flight: the cache directory holds the
\* pending entries of earlier requests; for one of them fetch_image is waiting
\* for api.query.chart, or for none (the worker that ran it is gone).
Rendering ==
    /\ Installed
    /\ now \in 0 .. MaxTime
    /\ codec = [first |-> NoIssue, second |-> NoIssue, probe |-> NoProbe]
    /\ \/ /\ task = [p \in Procs |-> NoTask]
          /\ renders = [i \in Ids |-> 0]
       \/ \E i \in Ids, o \in RenderOutcomes :
             /\ pending_dir[i] # NoFile
             /\ task = [p \in Procs |->
                          IF p = Renderer
                          THEN [NoTask EXCEPT !.handler = "fetch_image", !.at = "chart",
                                              !.image_id = i, !.outcome = o]
                          ELSE NoTask]
             /\ renders = [j \in Ids |-> IF j = i THEN 1 ELSE 0]

\* entry = cache.get_entry(image_id), one lookup of a loop of lookups.
Lookup(p, i) ==
    /\ pc[p] = "done"
    /\ pc' = [pc EXCEPT ![p] = "open_active"]
    /\ op' = [op EXCEPT ![p] = "get_entry"]
    /\ entry_id' = [entry_id EXCEPT ![p] = i]
    /\ input' = [input EXCEPT ![p] = NoInput]
    /\ is_expired' = [is_expired EXCEPT ![p] = {}]
    /\ entry' = [entry EXCEPT ![p] = NoEntry]
    /\ to_remove' = [to_remove EXCEPT ![p] = <<>>]
    /\ ret' = [ret EXCEPT ![p] = "NONE"]
    /\ UNCHANGED <<fs, wfd, history>>

\* The response get_image gives for the entry get_entry returned.
Response(r, e) ==
    IF r = "NONE" THEN "404 not found"
    ELSE IF e.status = "ACTIVE" /\ e.type = "IMAGE" THEN "200 image"
    ELSE IF e.status = "ACTIVE" /\ e.type = "ERROR_MSG" THEN "status_code of the error"
    ELSE IF e.status = "PENDING" THEN "500 pending"
    ELSE "500 unknown status"

Respond(p, response) ==
    task' = [task EXCEPT ![p].at = "returned", ![p].response = response]

\* The texts the clients send as image_id: the identifiers create_request
\* returned, and a text that has no timestamp field.
Received == {IdText(i) : i \in Ids} \cup {Digest(Query)}

\* get_image of src/main.py, up to the first lookup: 400 for an identifier
\* that does not decode, 404 for an expired one.
get_image_main(p) ==
    /\ p = Reader
    /\ task[p].handler = "none"
    /\ pc[p] = "done"
    /\ \E t \in Received :
          LET ts == expiration(t) IN
          IF ts = None \/ ts.ts < now THEN
              /\ task' = [task EXCEPT ![p] =
                            [NoTask EXCEPT
                               !.handler = "get_image_main", !.at = "returned",
                               !.token = t,
                               !.response = IF ts = None THEN "400 invalid"
                                            ELSE "404 not found"]]
              /\ UNCHANGED <<fs, locals, history>>
          ELSE
              /\ task' = [task EXCEPT ![p] =
                            [NoTask EXCEPT !.handler = "get_image_main",
                                           !.at = "get_entry", !.token = t,
                                           !.image_id = NameOf(t)]]
              /\ Lookup(p, NameOf(t))
    /\ UNCHANGED <<now, renders, codec>>

\* get_image of src/main.py, the body of `while True` behind the lookup: the
\* response, or sleep(settings.status_poll_period) and the next lookup for an
\* entry that is PENDING.
Polled(p) ==
    /\ task[p].handler = "get_image_main"
    /\ task[p].at = "get_entry"
    /\ pc[p] = "done"
    /\ IF ret[p] # "NONE" /\ entry[p].status = "PENDING" THEN
           /\ Lookup(p, task[p].image_id)
           /\ UNCHANGED task
       ELSE
           /\ Respond(p, Response(ret[p], entry[p]))
           /\ UNCHANGED <<fs, locals, history>>
    /\ UNCHANGED <<now, renders, codec>>

\* The steps of the reader's lookup.
ReaderLookup ==
    \/ OpenActive(Reader) /\ UNCHANGED service
    \/ OpenPending(Reader) /\ UNCHANGED service
    \/ ReadHeader(Reader) /\ UNCHANGED service
    \/ ReadData(Reader) /\ UNCHANGED service

ReaderStep == Polled(Reader) \/ ReaderLookup

\* The steps of the renderer's fetch_image.
RendererStep ==
    \/ StoreOutcome(Renderer)
    \/ OpenActive(Renderer) /\ UNCHANGED service
    \/ OpenPending(Renderer) /\ UNCHANGED service
    \/ WriteOpen(Renderer) /\ UNCHANGED service
    \/ Write(Renderer) /\ UNCHANGED service
    \/ WriteData(Renderer) /\ UNCHANGED service
    \/ Rename(Renderer) /\ UNCHANGED service
    \/ Reopen(Renderer) /\ UNCHANGED service

NextWait == get_image_main(Reader) \/ ReaderStep \/ RendererStep

\* The worker thread that serves the request keeps running: the handler is a
\* plain function run in the thread pool, its steps are always enabled.
SpecWait == Rendering /\ [][NextWait]_vars /\ WF_vars(ReaderStep)

\* ------------------------------------------------------------- claim C14
\* C14: the wait on an identifier returns when get_entry reports ACTIVE, when
\* it reports absent, or when the timeout has elapsed: a get_image that has
\* started to wait returns, also for an identifier that stays PENDING forever.
C14_WaitReturns ==
    (task[Reader].at = "get_entry") ~> (task[Reader].at = "returned")

\* ------------------------------------------- get_image of src/app/main.py
\* Mutant: a wait that notices the timeout two polls late.
TimedOut_Late(waited) == waited >= entry_wait_timeout + 2 * status_poll_period

\* ObjectCache.wait_for: the timeout (entry_wait_timeout, given to the
\* constructor) has elapsed.
TimedOut(waited) == waited >= entry_wait_timeout

\* get_image: 404 if is_expired(image_id); else cache.wait_for(image_id),
\* which starts with a lookup.
get_image(p) ==
    /\ p = Reader
    /\ task[p].handler = "none"
    /\ pc[p] = "done"
    /\ \E t \in Received :
          IF IsExpired(t) THEN
              /\ task' = [task EXCEPT ![p] =
                            [NoTask EXCEPT !.handler = "get_image", !.at = "returned",
                                           !.token = t, !.response = "404 not found"]]
              /\ UNCHANGED <<fs, locals, history>>
          ELSE
              /\ task' = [task EXCEPT ![p] =
                            [NoTask EXCEPT !.handler = "get_image", !.at = "wait_for",
                                           !.token = t, !.image_id = NameOf(t)]]
              /\ Lookup(p, NameOf(t))
    /\ UNCHANGED <<now, renders, codec>>

\* ObjectCache.wait_for(entry_id), the body of its loop behind the lookup: it
\* returns when the lookup reports ACTIVE or absent or when the timeout has
\* elapsed, and sleeps one poll interval otherwise.  When it has returned,
\* get_image goes on with entry = cache.get_entry(image_id).
wait_for(p) ==
    /\ task[p].handler = "get_image"
    /\ task[p].at = "wait_for"
    /\ pc[p] = "done"
    /\ LET pending == ret[p] # "NONE" /\ entry[p].status = "PENDING" IN
       IF pending /\ ~TimedOut(task[p].waited) THEN
           task' = [task EXCEPT ![p].waited = @ + status_poll_period]
       ELSE
           task' = [task EXCEPT
                      ![p].at = "get_entry",
                      ![p].outcome = IF pending THEN "timeout"
                                     ELSE IF ret[p] = "NONE" THEN "absent"
                                     ELSE "active"]
    /\ Lookup(p, task[p].image_id)
    /\ UNCHANGED <<now, renders, codec>>

\* get_image, behind entry = cache.get_entry(image_id): the response.
Responded(p) ==
    /\ task[p].handler = "get_image"
    /\ task[p].at = "get_entry"
    /\ pc[p] = "done"
    /\ Respond(p, Response(ret[p], entry[p]))
    /\ UNCHANGED <<fs, locals, history, now, renders, codec>>

NextWaitFor ==
    \/ get_image(Reader)
    \/ wait_for(Reader)
    \/ Responded(Reader)
    \/ ReaderLookup
    \/ RendererStep

SpecWaitFor == Rendering /\ [][NextWaitFor]_vars

Activated(i) ==
    CHOOSE inp \in ActivateInputs :
        inp.type = (IF InodeOf(i) = 1 THEN "IMAGE" ELSE "ERROR_MSG")

\* Where an earlier run left an identifier.
Places == {"absent", "pending", "active"}

\* ObjectCache.__init__ on the base directory of a service that has run: the
\* pending directory holds the requests create_entry wrote, the active
\* directory the results activate_entry stored.
Kept ==
    /\ \E left \in [Ids -> Places] :
          /\ pending_dir = [i \in Ids |->
                              IF left[i] = "pending" THEN InodeOf(i) ELSE NoFile]
          /\ active_dir = [i \in Ids |->
                             IF left[i] = "active" THEN InodeOf(i) ELSE NoFile]
          /\ files = [n \in Inodes |->
                        IF \E i \in Ids : InodeOf(i) = n /\ left[i] = "pending"
                        THEN Encode(Leftover.type, Leftover.data)
                        ELSE IF \E i \in Ids : InodeOf(i) = n /\ left[i] = "active"
                        THEN LET i == CHOOSE j \in Ids : InodeOf(j) = n
                             IN Encode(Activated(i).type, Activated(i).data)
                        ELSE <<>>]
    /\ pc = [p \in Procs |-> "done"]
    /\ op = [p \in Procs |-> "none"]
    /\ entry_id = [p \in Procs |-> CHOOSE i \in Ids : TRUE]
    /\ input = [p \in Procs |-> NoInput]
    /\ is_expired = [p \in Procs |-> {}]
    /\ entry = [p \in Procs |-> NoEntry]
    /\ wfd = [p \in Procs |-> NoWrite]
    /\ to_remove = [p \in Procs |-> <<>>]
    /\ ret = [p \in Procs |-> "NONE"]
    /\ calls = 0
    /\ latest = "nobody"
    /\ previous = "nobody"
    /\ hb = {}
    /\ unlinked = {}

\* The cache of a service that has run, on its own.
Stored == Kept /\ Idle

\* Readers beside pruning passes: the callers call get_entry and prune only,
\* so that no file is written and no entry is created.
NextPrune ==
    /\ \E p \in Procs :
          \/ (get_entry(p) \/ prune(p)) /\ Overlapping(p)
          \/ OpenActive(p)
          \/ OpenPending(p)
          \/ ReadHeader(p)
          \/ ReadData(p)
          \/ ScanPending(p)
          \/ ScanActive(p)
          \/ Unlink(p)
    /\ UNCHANGED service

SpecPrune == Stored /\ [][NextPrune]_vars

\* ------------------------------------------------------------- claim C21
\* Under SpecPrune the entry of identifier i with status s holds what Kept put
\* there.
Original(i, s) == IF s = "PENDING" THEN Leftover ELSE Activated(i)

\* The caller holds a handle get_entry opened and has not read to the end.
Reading(p) == op[p] = "get_entry" /\ pc[p] \in {"readline", "read"}

\* The file behind the caller's handle has lost its name.
Deleted(p) ==
    /\ pending_dir[entry_id[p]] # entry[p].handle
    /\ active_dir[entry_id[p]] # entry[p].handle

\* C21: a get_entry that opened the entry's file before a concurrent prune
\* deleted it reads the complete type and data of the entry (the file behind
\* the handle keeps its content when its name is removed), and a get_entry
\* that starts when a prune that selected the identifier has returned reports
\* the entry absent.
C21_ReadOutlivesUnlink ==
    \A p \in Procs :
        /\ Reading(p) =>
              StoredEntry(entry[p].handle) = Original(entry_id[p], entry[p].status)
        /\ Done(p, "get_entry") /\ ret[p] = "ENTRY" =>
              [type |-> entry[p].type, data |-> entry[p].data]
                  = Original(entry_id[p], entry[p].status)
        /\ \A q \in Procs :
              ( /\ Done(p, "get_entry")
                /\ Done(q, "prune") /\ ret[q] = "OK"
                /\ <<q, p>> \in hb
                /\ entry_id[p] \in is_expired[q] )
              => ret[p] = "NONE"

\* C21's case: a prune has deleted the active file of an identifier while a
\* get_entry holds it open, the tag line read and the data still to read.
C21_Witness ==
    \E p, q \in Procs :
        /\ Reading(p) /\ pc[p] = "read"
        /\ entry[p].status = "ACTIVE"
        /\ Deleted(p)
        /\ entry_id[p] \in unlinked
        /\ ~Present(entry_id[p])
        /\ Done(q, "prune") /\ ret[q] = "OK"

\* ------------------------------------------------------------- claim C22
\* C22: once an identifier is ACTIVE its type and data do not change until it
\* is pruned: when a get_entry has returned an ACTIVE entry with the complete
\* values of one activate_entry call and no call is in progress, the identifier
\* not pruned, the active file still holds that type and that data (a second
\* get_entry would return them).
C22_ActiveNeverChanges ==
    \A p \in Procs :
        ( /\ Quiet
          /\ Done(p, "get_entry") /\ ret[p] = "ENTRY"
          /\ entry[p].status = "ACTIVE"
          /\ [type |-> entry[p].type, data |-> entry[p].data] \in ActivateInputs
          /\ entry_id[p] \notin unlinked
          /\ active_dir[entry_id[p]] # NoFile )
        => StoredEntry(active_dir[entry_id[p]])
              = [type |-> entry[p].type, data |-> entry[p].data]

\* ------------------------------------------------------------- claim C23
\* Two calls of make_image_id have been made for the same api_query with
\* different ttl.
SameContentOtherTtl ==
    /\ codec.first # NoIssue
    /\ codec.second # NoIssue
    /\ codec.first.content = codec.second.content
    /\ codec.first.ttl # codec.second.ttl

\* C23 as stated: two requests with the same content and different ttl get
\* different identifiers, whatever the instants at which they are made.
C23_OtherTtlOtherId ==
    SameContentOtherTtl => codec.first.id # codec.second.id

\* C23 as amended: two requests with the same content and different ttl get
\* different identifiers exactly when their expiry instants (the instant of
\* the call plus ttl) differ, so always when they are made at the same instant;
\* made at instants that differ by the difference of the ttl they get the same
\* identifier.
C23_OtherExpiryOtherId ==
    SameContentOtherTtl =>
        ( codec.first.id = codec.second.id
            <=> Expiry(codec.first.at, codec.first.ttl)
                    = Expiry(codec.second.at, codec.second.ttl) )

C23_Witness ==
    /\ SameContentOtherTtl
    /\ codec.first.at = codec.second.at
    /\ codec.first.at > 0
    /\ codec.first.ttl = default_ttl
    /\ codec.first.id # codec.second.id

\* ------------------------------------------------- promotions beside pruning
\* The callers call activate_entry and prune only: nothing creates an entry,
\* so an identifier a prune has removed is in the store again only if an
\* activate_entry has put it there.
NextPromote ==
    /\ \E p \in Procs :
          \/ (activate_entry(p) \/ prune(p)) /\ Overlapping(p)
          \/ OpenActive(p)
          \/ OpenPending(p)
          \/ WriteOpen(p)
          \/ Write(p)
          \/ WriteData(p)
          \/ Rename(p)
          \/ Reopen(p)
          \/ ScanPending(p)
          \/ ScanActive(p)
          \/ Unlink(p)
    /\ UNCHANGED service

SpecPromote == Init /\ [][NextPromote]_vars

\* ------------------------------------------------------------- claim C24
\* C24: activate_entry never brings back an entry that prune has removed: when
\* a prune has deleted the pending file of an identifier behind the lookup of
\* an activate_entry, the call leaves no file of that identifier in pending or
\* active and does not return SUCCESS.  With nothing creating entries: when
\* every call has returned, an activate_entry that has returned SUCCESS for an
\* identifier a prune has removed has left no file of it.
C24_NoResurrection ==
    \A p \in Procs :
        ( /\ Quiet
          /\ Done(p, "activate_entry") /\ ret[p] = "SUCCESS"
          /\ entry_id[p] \in unlinked )
        => ~Present(entry_id[p])

\* ------------------------------------------------------------- claim C25
\* The handler that served GET for the text the client sent has returned.
Served(p) ==
    task[p].handler \in {"get_image", "get_image_main"} /\ task[p].at = "returned"

\* C25: a read request for an identifier whose expiry has passed, or that does
\* not decode, returns not-found without waiting and without a lookup in the
\* cache (so without any cached payload), whether or not the entry is still in
\* the store.  (The clock does not advance while the request is served: the
\* identifier is expired at the return exactly if it was at the request.)
C25_ExpiredNotFound ==
    \A p \in Procs :
        Served(p) /\ IsExpired(task[p].token) =>
            /\ task[p].response = "404 not found"
            /\ task[p].waited = 0
            /\ op[p] = "none"
            /\ entry[p] = NoEntry

\* ------------------------------------------------------- write, then open
\* The types and the payloads written: empty, with line feeds, with blanks at
\* the ends, with bytes that are no text, with the text of a tag.
Categories == {"REQUEST", "ERROR_MSG", "IMAGE"}
Payloads ==
    { <<>>, <<"x">>, <<LF>>, <<LF, "x">>, <<"x", LF, "y">>, <<NonUtf8, LF>>,
      <<" ", "x", " ">>, <<TypeValue("IMAGE"), LF, "x">> }
Stores == [type : Categories, data : Payloads]

\* The files found in the cache directory that no CacheEntry.write has
\* written: empty, without a tag line, with an unknown tag, with a tag between
\* blanks, with a first line that is no text.
Foreign ==
    { <<>>, <<"x">>, <<"x", LF, "y">>, <<LF, TypeValue("IMAGE"), LF>>,
      <<TypeValue("INVALID"), LF, "x">>, <<TypeValue("IMAGE"), "x", LF, "y">>,
      <<" ", TypeValue("IMAGE"), " ", LF, "x">>, <<NonUtf8, LF, "x">>,
      <<TypeValue("IMAGE"), NonUtf8, LF>> }

\* ObjectCache.__init__ on a base directory that holds one file the cache did
\* not write, under the first identifier, in pending or in active.
Found ==
    /\ \E c \in Foreign, place \in {"pending", "active"} :
          /\ pending_dir = [i \in Ids |->
                              IF InodeOf(i) = 1 /\ place = "pending" THEN 1 ELSE NoFile]
          /\ active_dir = [i \in Ids |->
                             IF InodeOf(i) = 1 /\ place = "active" THEN 1 ELSE NoFile]
          /\ files = [n \in Inodes |-> IF n = 1 THEN c ELSE <<>>]
    /\ pc = [p \in Procs |-> "done"]
    /\ op = [p \in Procs |-> "none"]
    /\ entry_id = [p \in Procs |-> CHOOSE i \in Ids : TRUE]
    /\ input = [p \in Procs |-> NoInput]
    /\ is_expired = [p \in Procs |-> {}]
    /\ entry = [p \in Procs |-> NoEntry]
    /\ wfd = [p \in Procs |-> NoWrite]
    /\ to_remove = [p \in Procs |-> <<>>]
    /\ ret = [p \in Procs |-> "NONE"]
    /\ calls = 0
    /\ latest = "nobody"
    /\ previous = "nobody"
    /\ hb = {}
    /\ unlinked = {}
    /\ Idle

\* create_entry(entry_id, entry_type, data) with any type and payload: it
\* writes the entry with CacheEntry.write.
create_any(p) ==
    \E i \in Ids, inp \in Stores :
        Call(p, "create_entry", i, inp, {}, "open_active")

\* One worker writes entries, the other opens them, one call at a time.
NextOpen ==
    /\ \/ Quiet /\ create_any(Renderer) /\ InSequence(Renderer)
       \/ Quiet /\ get_entry(Reader) /\ InSequence(Reader)
       \/ \E p \in Procs :
             \/ OpenActive(p)
             \/ OpenPending(p)
             \/ ReadHeader(p)
             \/ ReadData(p)
             \/ WriteOpen(p)
             \/ Write(p)
             \/ WriteData(p)
    /\ UNCHANGED service

SpecOpen == Found /\ [][NextOpen]_vars

\* ------------------------------------------------------------- claim C26
\* The first line of content c, without its line feed.
FirstLine(c) ==
    LET line == ReadLine(c)
    IN IF line # <<>> /\ line[Len(line)] = LF
       THEN SubSeq(line, 1, Len(line) - 1)
       ELSE line

\* The first line is none of the three tags.
Unrecognized(c) == \A t \in Categories : FirstLine(c) # <<TypeValue(t)>>

\* The file get_entry opens for identifier i.
FileOf(i) ==
    IF active_dir[i] # NoFile THEN files[active_dir[i]] ELSE files[pending_dir[i]]

\* C26: an entry written with type C and payload P, then opened, has type C
\* and payload P, whatever the payload; and a file whose first line is none of
\* the three tags opens with type INVALID, the open does not raise.  (Under
\* SpecOpen a file that is in the store is neither removed nor rewritten.)
C26_WriteThenOpen ==
    /\ ( /\ Quiet
         /\ previous = Renderer /\ latest = Reader
         /\ op[Renderer] = "create_entry" /\ ret[Renderer] = "CREATED"
         /\ op[Reader] = "get_entry"
         /\ entry_id[Reader] = entry_id[Renderer] )
       => /\ ret[Reader] = "ENTRY"
          /\ entry[Reader].type = input[Renderer].type
          /\ entry[Reader].data = input[Renderer].data
    /\ ( /\ Done(Reader, "get_entry")
         /\ Present(entry_id[Reader])
         /\ Unrecognized(FileOf(entry_id[Reader])) )
       => /\ ret[Reader] = "ENTRY"
          /\ entry[Reader].type = "INVALID"

=============================================================================
